---- MODULE Spec2Model ----
(***************************************************************************)
(* A model of the TPM2 client library: the response-code decoder           *)
(* (call/src/lib.rs), the response reader, the capability query and the    *)
(* command-line driver (cli/src/main.rs), and the object stack             *)
(* (tpm2sh/src/tpm_stack.rs).                                              *)
(*                                                                         *)
(* A u32 is held as two 16-bit halves, [hi |-> 0..65535, lo |-> 0..65535], *)
(* so that every 32-bit value (0xFFFFFFFF included) is representable.  A   *)
(* byte buffer is a sequence of numbers in 0..255.                         *)
(***************************************************************************)
EXTENDS Integers, Sequences, FiniteSets, TLC

VARIABLES
  pc,        \* position of the running program (main or a direct call)
  cmd,       \* the parsed command line (Commands), or NoCmd
  rc,        \* the ResponseCode last returned by ResponseCode::from
  frame,     \* arguments of the running get_capability call, or NoFrame
  calls,     \* number of get_capability calls started
  ioLog,     \* every transport operation performed, in order
  wbuf,      \* the bytes handed to the last write_all
  rbuf,      \* the bytes the last read_to_end produced, or NoBuf
  response,  \* the last value returned by read_response
  result,    \* the last value returned by get_capability
  stdout,    \* what main has printed, in order
  stack,     \* TpmStack.stack
  op,        \* the last TpmStack operation and its outcome
  prev,      \* the TpmStack operation before that
  fb,        \* the from_bytes call in progress: its arguments and `tail`
  lifo       \* the objects pushed and the values popped back, in order

cliVars == <<pc, cmd, rc, frame, calls, ioLog, wbuf, rbuf, response, result, stdout>>
stackVars == <<stack, op, prev, fb, lifo>>
vars == <<pc, cmd, rc, frame, calls, ioLog, wbuf, rbuf, response, result, stdout,
          stack, op, prev, fb, lifo>>

----------------------------------------------------------------------------
(* Fixed-width integers and byte order. *)

U32(hi, lo) == [hi |-> hi, lo |-> lo]

U32Zero == U32(0, 0)

RECURSIVE BitAnd16(_, _)
BitAnd16(a, b) ==
  IF a = 0 \/ b = 0 THEN 0
  ELSE 2 * BitAnd16(a \div 2, b \div 2) + (IF a % 2 = 1 /\ b % 2 = 1 THEN 1 ELSE 0)

\* a & b on u32
u32_and(a, b) == U32(BitAnd16(a.hi, b.hi), BitAnd16(a.lo, b.lo))

\* a > b on u32
u32_gt(a, b) == a.hi > b.hi \/ (a.hi = b.hi /\ a.lo > b.lo)

\* a usize below 2^32 seen as a u32 (buffer lengths; `x as usize` widens a u32
\* without changing its value, so the comparison is made on 32 bits)
usize_as_u32(n) == U32(n \div 65536, n % 65536)

\* u16::from_be_bytes([b0, b1])
u16_from_be_bytes(b0, b1) == b0 * 256 + b1

\* u32::from_be_bytes([b0, b1, b2, b3])
u32_from_be_bytes(b0, b1, b2, b3) == U32(b0 * 256 + b1, b2 * 256 + b3)

\* u16::to_be_bytes
u16_to_be_bytes(n) == <<n \div 256, n % 256>>

\* u32::to_be_bytes
u32_to_be_bytes(v) == u16_to_be_bytes(v.hi) \o u16_to_be_bytes(v.lo)

----------------------------------------------------------------------------
(* call/src/lib.rs: the response code enumeration and its decoder. *)

RC_VER1 == 256
RC_FMT1 == 128
RC_WARN == 2304

\* enum ResponseCode, #[repr(u32)]: variant |-> discriminant
ResponseCodeRepr ==
  [ Success |-> 0, BadTag |-> 30, Initialize |-> 256, Failure |-> 257,
    Sequence |-> 259, Private |-> 267, Hmac |-> 281, Disabled |-> 288,
    Exclusive |-> 289, AuthType |-> 292, AuthMissing |-> 293, Policy |-> 294,
    Pcr |-> 295, PcrChanged |-> 296, Upgrade |-> 301, TooManyContexts |-> 302,
    AuthUnavailable |-> 303, Reboot |-> 304, Unbalanced |-> 305, CommandSize |-> 322,
    CommandCode |-> 323, AuthSize |-> 324, AuthContext |-> 325, NvRange |-> 326,
    NvSize |-> 327, NvLocked |-> 328, NvAuthorization |-> 329, NvUninitialized |-> 330,
    NvSpace |-> 331, NvDefined |-> 332, BadContext |-> 336, CpHash |-> 337,
    Parent |-> 338, NeedsTest |-> 339, NoResult |-> 340, Sensitive |-> 341,
    Asymmetric |-> 129, Attributes |-> 130, Hash |-> 131, Value |-> 132,
    Hierarchy |-> 133, KeySize |-> 135, Mgf |-> 136, Mode |-> 137,
    Type |-> 138, Handle |-> 139, Kdf |-> 140, Range |-> 141,
    AuthFail |-> 142, Nonce |-> 143, Pp |-> 144, Scheme |-> 146,
    Size |-> 149, Symmetric |-> 150, Tag |-> 151, Selector |-> 152,
    Insufficient |-> 154, Signature |-> 155, Key |-> 156, PolicyFail |-> 157,
    Integrity |-> 159, Ticket |-> 160, ReservedBits |-> 161, BadAuth |-> 162,
    Expired |-> 163, PolicyCc |-> 164, Binding |-> 165, Curve |-> 166,
    EccPoint |-> 167, ContextGap |-> 2305, ObjectMemory |-> 2306, SessionMemory |-> 2307,
    Memory |-> 2308, SessionHandles |-> 2309, ObjectHandles |-> 2310, Locality |-> 2311,
    Yielded |-> 2312, Canceled |-> 2313, Testing |-> 2314, ReferenceH0 |-> 2320,
    ReferenceH1 |-> 2321, ReferenceH2 |-> 2322, ReferenceH3 |-> 2323, ReferenceH4 |-> 2324,
    ReferenceH5 |-> 2325, ReferenceH6 |-> 2326, ReferenceS0 |-> 2328, ReferenceS1 |-> 2329,
    ReferenceS2 |-> 2330, ReferenceS3 |-> 2331, ReferenceS4 |-> 2332, ReferenceS5 |-> 2333,
    ReferenceS6 |-> 2334, NvRate |-> 2336, Lockout |-> 2337, Retry |-> 2338,
    NvUnavailable |-> 2339, NotUsed |-> 2431 ]

\* impl fmt::Display for ResponseCode: variant |-> the string written
ResponseCodeDisplay ==
  [ Success |-> "TPM_RC_SUCCESS", BadTag |-> "TPM_RC_BAD_TAG",
    Initialize |-> "TPM_RC_INITIALIZE", Failure |-> "TPM_RC_FAILURE",
    Sequence |-> "TPM_RC_SEQUENCE", Private |-> "TPM_RC_PRIVATE",
    Hmac |-> "TPM_RC_HMAC", Disabled |-> "TPM_RC_DISABLED",
    Exclusive |-> "TPM_RC_EXCLUSIVE", AuthType |-> "TPM_RC_AUTH_TYPE",
    AuthMissing |-> "TPM_RC_AUTH_MISSING", Policy |-> "TPM_RC_POLICY",
    Pcr |-> "TPM_RC_PCR", PcrChanged |-> "TPM_RC_PCR_CHANGED",
    Upgrade |-> "TPM_RC_UPGRADE", TooManyContexts |-> "TPM_RC_TOO_MANY_CONTEXTS",
    AuthUnavailable |-> "TPM_RC_AUTH_UNAVAILABLE", Reboot |-> "TPM_RC_REBOOT",
    Unbalanced |-> "TPM_RC_UNBALANCED", CommandSize |-> "TPM_RC_COMMAND_SIZE",
    CommandCode |-> "TPM_RC_COMMAND_CODE", AuthSize |-> "TPM_RC_AUTHSIZE",
    AuthContext |-> "TPM_RC_AUTH_CONTEXT", NvRange |-> "TPM_RC_NV_RANGE",
    NvSize |-> "TPM_RC_NV_SIZE", NvLocked |-> "TPM_RC_NV_LOCKED",
    NvAuthorization |-> "TPM_RC_NV_AUTHORIZATION", NvUninitialized |-> "TPM_RC_NV_UNINITIALIZED",
    NvSpace |-> "TPM_RC_NV_SPACE", NvDefined |-> "TPM_RC_NV_DEFINED",
    BadContext |-> "TPM_RC_BAD_CONTEXT", CpHash |-> "TPM_RC_CPHASH",
    Parent |-> "TPM_RC_PARENT", NeedsTest |-> "TPM_RC_NEEDS_TEST",
    NoResult |-> "TPM_RC_NO_RESULT", Sensitive |-> "TPM_RC_SENSITIVE",
    Asymmetric |-> "TPM_RC_ASYMMETRIC", Attributes |-> "TPM_RC_ATTRIBUTES",
    Hash |-> "TPM_RC_HASH", Value |-> "TPM_RC_VALUE",
    Hierarchy |-> "TPM_RC_HIERARCHY", KeySize |-> "TPM_RC_KEY_SIZE",
    Mgf |-> "TPM_RC_MGF", Mode |-> "TPM_RC_MODE",
    Type |-> "TPM_RC_TYPE", Handle |-> "TPM_RC_HANDLE",
    Kdf |-> "TPM_RC_KDF", Range |-> "TPM_RC_RANGE",
    AuthFail |-> "TPM_RC_AUTH_FAIL", Nonce |-> "TPM_RC_NONCE",
    Pp |-> "TPM_RC_PP", Scheme |-> "TPM_RC_SCHEME",
    Size |-> "TPM_RC_SIZE", Symmetric |-> "TPM_RC_SYMMETRIC",
    Tag |-> "TPM_RC_TAG", Selector |-> "TPM_RC_SELECTOR",
    Insufficient |-> "TPM_RC_INSUFFICIENT", Signature |-> "TPM_RC_SIGNATURE",
    Key |-> "TPM_RC_KEY", PolicyFail |-> "TPM_RC_POLICY_FAIL",
    Integrity |-> "TPM_RC_INTEGRITY", Ticket |-> "TPM_RC_TICKET",
    ReservedBits |-> "TPM_RC_RESERVED_BITS", BadAuth |-> "TPM_RC_BAD_AUTH",
    Expired |-> "TPM_RC_EXPIRED", PolicyCc |-> "TPM_RC_POLICY_CC",
    Binding |-> "TPM_RC_BINDING", Curve |-> "TPM_RC_CURVE",
    EccPoint |-> "TPM_RC_ECC_POINT", ContextGap |-> "TPM_RC_CONTEXT_GAP",
    ObjectMemory |-> "TPM_RC_OBJECT_MEMORY", SessionMemory |-> "TPM_RC_SESSION_MEMORY",
    Memory |-> "TPM_RC_MEMORY", SessionHandles |-> "TPM_RC_SESSION_HANDLES",
    ObjectHandles |-> "TPM_RC_OBJECT_HANDLES", Locality |-> "TPM_RC_LOCALITY",
    Yielded |-> "TPM_RC_YIELDED", Canceled |-> "TPM_RC_CANCELED",
    Testing |-> "TPM_RC_TESTING", ReferenceH0 |-> "TPM_RC_REFERENCE_H0",
    ReferenceH1 |-> "TPM_RC_REFERENCE_H1", ReferenceH2 |-> "TPM_RC_REFERENCE_H2",
    ReferenceH3 |-> "TPM_RC_REFERENCE_H3", ReferenceH4 |-> "TPM_RC_REFERENCE_H4",
    ReferenceH5 |-> "TPM_RC_REFERENCE_H5", ReferenceH6 |-> "TPM_RC_REFERENCE_H6",
    ReferenceS0 |-> "TPM_RC_REFERENCE_S0", ReferenceS1 |-> "TPM_RC_REFERENCE_S1",
    ReferenceS2 |-> "TPM_RC_REFERENCE_S2", ReferenceS3 |-> "TPM_RC_REFERENCE_S3",
    ReferenceS4 |-> "TPM_RC_REFERENCE_S4", ReferenceS5 |-> "TPM_RC_REFERENCE_S5",
    ReferenceS6 |-> "TPM_RC_REFERENCE_S6", NvRate |-> "TPM_RC_NV_RATE",
    Lockout |-> "TPM_RC_LOCKOUT", Retry |-> "TPM_RC_RETRY",
    NvUnavailable |-> "TPM_RC_NV_UNAVAILABLE", NotUsed |-> "TPM_RC_NOT_USED" ]

None == [some |-> FALSE]
Some(x) == [some |-> TRUE, val |-> x]

Ok(x) == [tag |-> "ok", val |-> x]
Err(e) == [tag |-> "err", err |-> e]
NoResult == [tag |-> "none"]

\* ResponseCode::from_repr (strum FromRepr): the variant with this
\* discriminant, if any
ResponseCode_from_repr(x) ==
  LET hit == {v \in DOMAIN ResponseCodeRepr : x = U32(0, ResponseCodeRepr[v])}
  IN IF hit = {} THEN None ELSE Some(CHOOSE v \in hit : TRUE)

\* Option::unwrap_or
unwrap_or(o, d) == IF o.some THEN o.val ELSE d

\* ResponseCode_masked with the marker bits dropped from every mask
ResponseCode_masked_NoMarker(value) == u32_and(value, U32(0, 127))

\* the discriminant handed to from_repr by ResponseCode::from
ResponseCode_masked(value) ==
  IF u32_and(value, U32(0, RC_FMT1)) # U32Zero
    THEN u32_and(value, U32(0, 63 + RC_FMT1))
  ELSE IF u32_and(value, U32(0, RC_WARN)) # U32Zero
    THEN u32_and(value, U32(0, 127 + RC_WARN))
  ELSE IF u32_and(value, U32(0, RC_VER1)) # U32Zero
    THEN u32_and(value, U32(0, 127 + RC_VER1))
  ELSE u32_and(value, U32(0, 127))

\* ResponseCode_from with the wrong variant in the default arm
ResponseCode_from_WrongDefault(value) ==
  unwrap_or(ResponseCode_from_repr(ResponseCode_masked(value)), "Success")

\* impl From<u32> for ResponseCode
ResponseCode_from(value) ==
  unwrap_or(ResponseCode_from_repr(ResponseCode_masked(value)), "NotUsed")

\* impl fmt::Display for ResponseCode
ResponseCode_fmt(v) == ResponseCodeDisplay[v]

\* enum Tag, #[repr(u16)]: variant |-> discriminant
TagRepr ==
  [ RspCommand |-> 196, Null |-> 32768, NoSessions |-> 32769, Sessions |-> 32770,
    AttestNv |-> 32788, AttestCommandAudit |-> 32789, AttestSessionAudit |-> 32790, AttesCertify |-> 32791,
    AttestQuote |-> 32792, AttestTime |-> 32793, AttestCreation |-> 32794, Creation |-> 32801,
    Verified |-> 32802, AuthSecret |-> 32803, HashCheck |-> 36, AuthSigned |-> 37,
    FuManifest |-> 41 ]

\* Tag::from_repr
Tag_from_repr(x) ==
  LET hit == {v \in DOMAIN TagRepr : TagRepr[v] = x}
  IN IF hit = {} THEN None ELSE Some(CHOOSE v \in hit : TRUE)

\* Command::GetCapability
Command_GetCapability == 378

\* Capability::Handles
Capability_Handles == 1

\* Handle::Transient, Handle::Persistent
Handle_Transient == U32(32768, 0)
Handle_Persistent == U32(33024, 0)

----------------------------------------------------------------------------
(* cli/src/main.rs: the transport, read_response and get_capability. *)

MAX_HANDLES == 16

\* Bounds of the device's answers: the longest handle list the device sends.
MaxHandles == 3

\* The raw codes handed to the `rc` subcommand: every value of the low
\* RawBits bits, under several settings of the bits above them.
RawBits == 12

RECURSIVE Pow2(_)
Pow2(n) == IF n = 0 THEN 1 ELSE 2 * Pow2(n - 1)

RawCodes ==
  {U32(hi, lo) : hi \in {0, 65535}, lo \in 0 .. (Pow2(RawBits) - 1)}
  \cup {U32(65535, 65535)}

RECURSIVE SeqsUpTo(_, _)
\* all sequences over S of length 0..n
SeqsUpTo(S, n) ==
  IF n = 0 THEN {<<>>}
  ELSE LET shorter == SeqsUpTo(S, n - 1)
       IN shorter \cup {Append(s, x) : s \in {t \in shorter : Len(t) = n - 1}, x \in S}

RECURSIVE Flatten(_)
\* concatenation of a sequence of byte sequences
Flatten(ss) == IF ss = <<>> THEN <<>> ELSE Head(ss) \o Flatten(Tail(ss))

\* The handle values the device holds.
DeviceHandles == {U32(0, 17), U32(0, 18)}

\* The parameter areas the device sends: five leading bytes, a count field,
\* a handle list, and possibly a stray byte; or something shorter.
DeviceParameters ==
  {lead \o u32_to_be_bytes(count)
        \o Flatten([i \in 1 .. Len(hs) |-> u32_to_be_bytes(hs[i])]) \o stray :
     lead  \in {<<0, 0, 0, 0, 0>>, <<255, 0, 0, 0, 2>>},
     count \in {U32(0, n) : n \in 0 .. MaxHandles} \cup {U32(1, 2)},
     hs    \in SeqsUpTo(DeviceHandles, MaxHandles),
     stray \in {<<>>, <<0>>}}
  \cup {<<>>, <<0, 0, 0, 0, 0, 0, 0, 0>>}

\* The size field of a buffer of n bytes: right, one too many, or right in
\* its low half only.
SizeField(kind, n) ==
  CASE kind = "exact"   -> usize_as_u32(n)
    [] kind = "longer"  -> usize_as_u32(n + 1)
    [] kind = "high"    -> U32(1, n)

\* The headers the device sends: tag, size field, response code.
DeviceHeaders ==
  {<<TagRepr.NoSessions, "exact", U32(0, 0)>>,
   <<TagRepr.NoSessions, "exact", U32(0, 257)>>,
   <<4660, "exact", U32(0, 0)>>,
   <<TagRepr.NoSessions, "longer", U32(0, 0)>>,
   <<4660, "high", U32(0, 257)>>}

\* The buffers read_to_end can produce: a header in front of a parameter
\* area; or a buffer shorter than a header.
DeviceResponses ==
  {u16_to_be_bytes(h[1]) \o u32_to_be_bytes(SizeField(h[2], 10 + Len(ps)))
                         \o u32_to_be_bytes(h[3]) \o ps :
     h \in DeviceHeaders, ps \in DeviceParameters}
  \cup {<<>>, <<128, 1, 0, 0, 0, 9, 0, 0, 0>>}

\* What file.read_to_end(&mut buf) does: fails, or fills buf.
ReadOutcomes == {None} \cup {Some(b) : b \in DeviceResponses}

\* The arguments get_capability is called with directly.
Properties == {Handle_Transient, U32(4660, 22136)}
PropertyCounts == {U32(0, 0), U32(0, 1), U32(0, 2), U32(0, MAX_HANDLES), U32(1, 0)}

NoCmd == [kind |-> "none"]
NoFrame == [caller |-> "none"]

\* read_response comparing only the low 16 bits of the size field
read_response_TruncatedSize(rd) ==
  IF ~rd.some THEN Err("InvalidRead")
  ELSE
    LET buf == rd.val IN
    IF Len(buf) < 10 THEN Err("InvalidData")
    ELSE
      LET tag_raw == u16_from_be_bytes(buf[1], buf[2])
          size    == u32_from_be_bytes(buf[3], buf[4], buf[5], buf[6])
          rc_raw  == u32_from_be_bytes(buf[7], buf[8], buf[9], buf[10])
      IN IF size.lo # Len(buf) THEN Err("InvalidData")
         ELSE Ok([tag        |-> Tag_from_repr(tag_raw),
                  size       |-> size,
                  rc         |-> ResponseCode_from(rc_raw),
                  parameters |-> SubSeq(buf, 11, Len(buf))])

\* read_response taking the parameters from one byte too early
read_response_OffByOne(rd) ==
  IF ~rd.some THEN Err("InvalidRead")
  ELSE
    LET buf == rd.val IN
    IF Len(buf) < 10 THEN Err("InvalidData")
    ELSE
      LET tag_raw == u16_from_be_bytes(buf[1], buf[2])
          size    == u32_from_be_bytes(buf[3], buf[4], buf[5], buf[6])
          rc_raw  == u32_from_be_bytes(buf[7], buf[8], buf[9], buf[10])
      IN IF size # usize_as_u32(Len(buf)) THEN Err("InvalidData")
         ELSE Ok([tag        |-> Tag_from_repr(tag_raw),
                  size       |-> size,
                  rc         |-> ResponseCode_from(rc_raw),
                  parameters |-> SubSeq(buf, 10, Len(buf))])

\* fn read_response, after read_to_end has produced `rd`
read_response(rd) ==
  IF ~rd.some THEN Err("InvalidRead")
  ELSE
    LET buf == rd.val IN
    IF Len(buf) < 10 THEN Err("InvalidData")
    ELSE
      LET tag_raw == u16_from_be_bytes(buf[1], buf[2])
          size    == u32_from_be_bytes(buf[3], buf[4], buf[5], buf[6])
          rc_raw  == u32_from_be_bytes(buf[7], buf[8], buf[9], buf[10])
      IN IF size # usize_as_u32(Len(buf)) THEN Err("InvalidData")
         ELSE Ok([tag        |-> Tag_from_repr(tag_raw),
                  size       |-> size,
                  rc         |-> ResponseCode_from(rc_raw),
                  parameters |-> SubSeq(buf, 11, Len(buf))])

\* get_capability_cmd with the last two fields in the wrong order
get_capability_cmd_Swapped(property, property_count) ==
  u16_to_be_bytes(TagRepr.NoSessions)
    \o u32_to_be_bytes(U32(0, 22))
    \o u32_to_be_bytes(U32(0, Command_GetCapability))
    \o u32_to_be_bytes(U32(0, Capability_Handles))
    \o u32_to_be_bytes(property_count)
    \o u32_to_be_bytes(property)

\* fn get_capability: the command buffer built before write_all
get_capability_cmd(property, property_count) ==
  u16_to_be_bytes(TagRepr.NoSessions)
    \o u32_to_be_bytes(U32(0, 22))
    \o u32_to_be_bytes(U32(0, Command_GetCapability))
    \o u32_to_be_bytes(U32(0, Capability_Handles))
    \o u32_to_be_bytes(property)
    \o u32_to_be_bytes(property_count)

\* get_capability_handles reading each handle in little-endian order
get_capability_handles_LittleEndian(parameters, handles_count) ==
  [i \in 1 .. handles_count |->
     LET j == 9 + (i - 1) * 4
     IN u32_from_be_bytes(parameters[j + 4], parameters[j + 3],
                          parameters[j + 2], parameters[j + 1])]

\* fn get_capability: the loop collecting handles_count handles
get_capability_handles(parameters, handles_count) ==
  [i \in 1 .. handles_count |->
     LET j == 9 + (i - 1) * 4
     IN u32_from_be_bytes(parameters[j + 1], parameters[j + 2],
                          parameters[j + 3], parameters[j + 4])]

\* get_capability_parse without the check against property_count
get_capability_parse_NoCapacityCheck(resp, property_count) ==
  IF resp.tag = "err" THEN Err(resp.err)
  ELSE
    LET parameters == resp.val.parameters IN
    IF Len(parameters) < 9 \/ (Len(parameters) - 9) % 4 # 0 THEN Err("InvalidData")
    ELSE
      LET handles_count == u32_from_be_bytes(parameters[6], parameters[7],
                                             parameters[8], parameters[9])
      IN IF handles_count # usize_as_u32((Len(parameters) - 9) \div 4)
           THEN Err("InvalidData")
         ELSE Ok(get_capability_handles(parameters, handles_count.lo))

\* get_capability_parse refusing a response whose code is not Success
get_capability_parse_ChecksCode(resp, property_count) ==
  IF resp.tag = "err" THEN Err(resp.err)
  ELSE IF resp.val.rc # "Success" THEN Err("InvalidData")
  ELSE
    LET parameters == resp.val.parameters IN
    IF Len(parameters) < 9 \/ (Len(parameters) - 9) % 4 # 0 THEN Err("InvalidData")
    ELSE
      LET handles_count == u32_from_be_bytes(parameters[6], parameters[7],
                                             parameters[8], parameters[9])
      IN IF handles_count # usize_as_u32((Len(parameters) - 9) \div 4)
           THEN Err("InvalidData")
         ELSE IF u32_gt(handles_count, property_count) THEN Err("InvalidData")
         ELSE Ok(get_capability_handles(parameters, handles_count.lo))

\* fn get_capability, from the value read_response returned to its own return
get_capability_parse(resp, property_count) ==
  IF resp.tag = "err" THEN Err(resp.err)
  ELSE
    LET parameters == resp.val.parameters IN
    IF Len(parameters) < 9 \/ (Len(parameters) - 9) % 4 # 0 THEN Err("InvalidData")
    ELSE
      LET handles_count == u32_from_be_bytes(parameters[6], parameters[7],
                                             parameters[8], parameters[9])
      IN IF handles_count # usize_as_u32((Len(parameters) - 9) \div 4)
           THEN Err("InvalidData")
         ELSE IF u32_gt(handles_count, property_count) THEN Err("InvalidData")
         ELSE Ok(get_capability_handles(parameters, handles_count.lo))

\* the state a get_capability call starts in
Call(property, property_count, caller) ==
  /\ frame' = [property |-> property, property_count |-> property_count,
               caller |-> caller]
  /\ calls' = calls + 1
  /\ wbuf' = None
  /\ rbuf' = None
  /\ response' = NoResult
  /\ result' = NoResult
  /\ pc' = "gc_write"

\* get_capability called on its own, with any arguments
CallGetCapability ==
  /\ pc = "start"
  /\ \E property \in Properties, property_count \in PropertyCounts :
       Call(property, property_count, "direct")
  /\ UNCHANGED <<cmd, rc, ioLog, stdout>>
  /\ UNCHANGED stackVars

\* GetCapabilityWrite going on to the read whatever write_all returned
GetCapabilityWrite_IgnoreError ==
  /\ pc = "gc_write"
  /\ wbuf' = Some(get_capability_cmd(frame.property, frame.property_count))
  /\ \E written \in BOOLEAN :
       ioLog' = Append(ioLog, [op |-> "write", ok |-> written, call |-> calls])
  /\ pc' = "gc_read"
  /\ UNCHANGED <<cmd, rc, frame, calls, rbuf, response, result, stdout>>
  /\ UNCHANGED stackVars

\* fn get_capability up to and including file.write_all(&cmd)
GetCapabilityWrite ==
  /\ pc = "gc_write"
  /\ wbuf' = Some(get_capability_cmd(frame.property, frame.property_count))
  /\ \E written \in BOOLEAN :
       /\ ioLog' = Append(ioLog, [op |-> "write", ok |-> written, call |-> calls])
       /\ IF written
            THEN pc' = "gc_read" /\ result' = result
            ELSE pc' = "gc_ret" /\ result' = Err("InvalidWrite")
  /\ UNCHANGED <<cmd, rc, frame, calls, rbuf, response, stdout>>
  /\ UNCHANGED stackVars

\* fn get_capability from read_response(file) to its return
GetCapabilityRead ==
  /\ pc = "gc_read"
  /\ \E rd \in ReadOutcomes :
       /\ ioLog' = Append(ioLog, [op |-> "read", ok |-> rd.some, call |-> calls])
       /\ rbuf' = rd
       /\ response' = read_response(rd)
       /\ result' = get_capability_parse(read_response(rd), frame.property_count)
  /\ pc' = "gc_ret"
  /\ UNCHANGED <<cmd, rc, frame, calls, wbuf, stdout>>
  /\ UNCHANGED stackVars

\* fn main, Commands::Rc
MainRc ==
  /\ pc = "start"
  /\ \E raw \in RawCodes :
       /\ cmd' = [kind |-> "Rc", rc |-> raw]
       /\ rc' = Some(ResponseCode_from(raw))
       /\ stdout' = Append(stdout, [name  |-> ResponseCode_fmt(ResponseCode_from(raw)),
                                    value |-> raw])
  /\ pc' = "done"
  /\ UNCHANGED <<frame, calls, ioLog, wbuf, rbuf, response, result>>
  /\ UNCHANGED stackVars

\* fn main, Commands::List: Device::open
MainList ==
  /\ pc = "start"
  /\ \E transient \in BOOLEAN, persistent \in BOOLEAN :
       cmd' = [kind |-> "List", transient |-> transient, persistent |-> persistent]
  /\ \E opened \in BOOLEAN : pc' = IF opened THEN "transient" ELSE "exit1"
  /\ UNCHANGED <<rc, frame, calls, ioLog, wbuf, rbuf, response, result, stdout>>
  /\ UNCHANGED stackVars

\* fn main, Commands::List: if *transient
MainTransient ==
  /\ pc = "transient"
  /\ IF cmd.transient
       THEN Call(Handle_Transient, U32(0, MAX_HANDLES), "transient")
       ELSE pc' = "persistent"
            /\ UNCHANGED <<frame, calls, wbuf, rbuf, response, result>>
  /\ UNCHANGED <<cmd, rc, ioLog, stdout>>
  /\ UNCHANGED stackVars

\* fn main, Commands::List: if *persistent
MainPersistent ==
  /\ pc = "persistent"
  /\ IF cmd.persistent
       THEN Call(Handle_Persistent, U32(0, MAX_HANDLES), "persistent")
       ELSE pc' = "done"
            /\ UNCHANGED <<frame, calls, wbuf, rbuf, response, result>>
  /\ UNCHANGED <<cmd, rc, ioLog, stdout>>
  /\ UNCHANGED stackVars

\* fn main, Commands::List: unwrap_or_else on the value get_capability
\* returned, then the loop printing the handles
MainPrint ==
  /\ pc = "gc_ret"
  /\ frame.caller \in {"transient", "persistent"}
  /\ IF result.tag = "err"
       THEN pc' = "exit1" /\ stdout' = stdout
       ELSE /\ stdout' = stdout \o result.val
            /\ pc' = IF frame.caller = "transient" THEN "persistent" ELSE "done"
  /\ UNCHANGED <<cmd, rc, frame, calls, ioLog, wbuf, rbuf, response, result>>
  /\ UNCHANGED stackVars

InitCli ==
  /\ pc = "start"
  /\ cmd = NoCmd
  /\ rc = None
  /\ frame = NoFrame
  /\ calls = 0
  /\ ioLog = <<>>
  /\ wbuf = None
  /\ rbuf = None
  /\ response = NoResult
  /\ result = NoResult
  /\ stdout = <<>>

----------------------------------------------------------------------------
(* tpm2sh/src/tpm_stack.rs: the object stack.                              *)
(*                                                                         *)
(* TpmBuild, TpmParse, TpmWriter and TPM_MAX_COMMAND_SIZE belong to the    *)
(* tpm2_protocol crate, whose text is not among the sources; they are      *)
(* modelled from the serialize/parse contract of the specification:        *)
(* build writes the encoding into a bounded writer and fails on overflow;  *)
(* parse consumes a prefix of a slice and returns the value with the       *)
(* unconsumed remainder, or fails on short or malformed input.             *)

\* The capacity of the scratch buffer push serializes into.  The crate's
\* value is large; the model uses a small one so that a push can overflow.
TPM_MAX_COMMAND_SIZE == 3

\* Bounds: the longest stack buffer, and the longest data of a sized buffer.
MaxStackLen == 5
MaxData == 2

\* The byte values objects and admitted buffers are made of.
StackBytes == {0, 1}

\* The types pushed and popped: a byte, a big-endian 16-bit integer, a
\* sized buffer (a 16-bit length followed by that many bytes), and a
\* structure without fields, whose encoding is the empty prefix of a slice.
ObjectTypes == {"u8", "u16", "Tpm2b", "Empty"}

\* The objects of each type.
Objects(T) ==
  CASE T = "u8"    -> StackBytes
    [] T = "u16"   -> {u16_from_be_bytes(a, b) : a \in StackBytes, b \in StackBytes}
    [] T = "Tpm2b" -> SeqsUpTo(StackBytes, MaxData)
    [] T = "Empty" -> {<<>>}

\* The encoding of object x of type T.
Encoding(T, x) ==
  CASE T = "u8"    -> <<x>>
    [] T = "u16"   -> u16_to_be_bytes(x)
    [] T = "Tpm2b" -> u16_to_be_bytes(Len(x)) \o x
    [] T = "Empty" -> <<>>

\* TpmBuild::build into a TpmWriter over a buffer of `capacity` bytes: the
\* bytes written, or an error when they do not fit.
TpmBuild_build(T, x, capacity) ==
  IF Len(Encoding(T, x)) > capacity THEN Err("Boundary") ELSE Ok(Encoding(T, x))

\* TpmParse::parse: the object at the front of `bytes` and the unconsumed
\* remainder, or an error.
TpmParse_parse(T, bytes) ==
  CASE T = "u8" ->
         IF Len(bytes) < 1 THEN Err("Boundary")
         ELSE Ok([object |-> bytes[1], tail |-> SubSeq(bytes, 2, Len(bytes))])
    [] T = "u16" ->
         IF Len(bytes) < 2 THEN Err("Boundary")
         ELSE Ok([object |-> u16_from_be_bytes(bytes[1], bytes[2]),
                  tail   |-> SubSeq(bytes, 3, Len(bytes))])
    [] T = "Tpm2b" ->
         IF Len(bytes) < 2 THEN Err("Boundary")
         ELSE LET size == u16_from_be_bytes(bytes[1], bytes[2])
              IN IF Len(bytes) - 2 < size THEN Err("Boundary")
                 ELSE Ok([object |-> SubSeq(bytes, 3, 2 + size),
                          tail   |-> SubSeq(bytes, 3 + size, Len(bytes))])
    [] T = "Empty" -> Ok([object |-> <<>>, tail |-> bytes])

\* TpmStack::from_vec
from_vec(bytes) == bytes

\* one iteration that takes a failed parse for the end of the input
from_bytes_iteration_StopsAtError(T, tail) ==
  LET p == TpmParse_parse(T, tail)
  IN IF p.tag = "err" THEN Ok(<<>>) ELSE Ok(p.val.tail)

\* TpmStack::from_bytes: one iteration of the while loop over a non-empty
\* `tail`: the error `?` returns, or the next `tail`
from_bytes_iteration(T, tail) ==
  LET p == TpmParse_parse(T, tail)
  IN IF p.tag = "err" THEN Err(p.err) ELSE Ok(p.val.tail)

\* the loop leaving at the first successful parse
from_bytes_within_OneParse(T, tail, n) ==
  IF tail = <<>> THEN Ok(<<>>)
  ELSE IF n = 0 THEN NoResult
  ELSE LET next == from_bytes_iteration(T, tail)
       IN IF next.tag = "err" THEN next ELSE Ok(<<>>)

RECURSIVE from_bytes_within(_, _, _)
\* TpmStack::from_bytes: the while loop run from `tail` for at most n
\* iterations: Ok when `tail` became empty, the error of the parse that
\* failed, or NoResult when the loop is still running after n iterations
from_bytes_within(T, tail, n) ==
  IF tail = <<>> THEN Ok(<<>>)
  ELSE IF n = 0 THEN NoResult
  ELSE LET next == from_bytes_iteration(T, tail)
       IN IF next.tag = "err" THEN next ELSE from_bytes_within(T, next.val, n - 1)

\* TpmStack::to_bytes
to_bytes(s) == s

\* push appending the encoding instead of prepending it
push_Append(s, T, object) ==
  LET built == TpmBuild_build(T, object, TPM_MAX_COMMAND_SIZE)
  IN IF built.tag = "err"
       THEN [res |-> Err(built.err), stack |-> s]
       ELSE [res |-> Ok(<<>>), stack |-> s \o built.val]

\* push prepending what fits of an encoding that overflows the buffer
push_PartialOnOverflow(s, T, object) ==
  LET built == TpmBuild_build(T, object, TPM_MAX_COMMAND_SIZE)
  IN IF built.tag = "err"
       THEN [res   |-> Err(built.err),
             stack |-> SubSeq(Encoding(T, object), 1, TPM_MAX_COMMAND_SIZE) \o s]
       ELSE [res |-> Ok(<<>>), stack |-> built.val \o s]

\* TpmStack::push: the outcome and the buffer afterwards
push(s, T, object) ==
  LET built == TpmBuild_build(T, object, TPM_MAX_COMMAND_SIZE)
  IN IF built.tag = "err"
       THEN [res |-> Err(built.err), stack |-> s]
       ELSE [res |-> Ok(<<>>), stack |-> built.val \o s]

\* pop returning the object without removing its bytes
pop_NoAdvance(s, T) ==
  LET parsed == TpmParse_parse(T, s)
  IN IF parsed.tag = "err"
       THEN [res |-> Err(parsed.err), stack |-> s]
       ELSE [res |-> Ok(parsed.val.object), stack |-> s]

\* TpmStack::pop: the outcome and the buffer afterwards
pop(s, T) ==
  LET parsed == TpmParse_parse(T, s)
  IN IF parsed.tag = "err"
       THEN [res |-> Err(parsed.err), stack |-> s]
       ELSE [res |-> Ok(parsed.val.object), stack |-> parsed.val.tail]

\* The buffers handed to from_vec and from_bytes.
InputBuffers == SeqsUpTo(StackBytes, MaxStackLen)

\* No from_bytes call is in progress.
NoCall == [active |-> FALSE, type |-> "none", bytes |-> <<>>, tail |-> <<>>,
           steps |-> 0]

\* Nothing has been pushed to be popped back.
NoLifo == [base |-> <<>>, pushed |-> <<>>, popped |-> <<>>]

\* TpmStack::from_vec(bytes), in place of the default stack
StackFromVec ==
  /\ op.kind = "default"
  /\ ~fb.active
  /\ \E bytes \in InputBuffers :
       /\ stack' = from_vec(bytes)
       /\ op' = [kind |-> "from_vec", type |-> "none", arg |-> bytes,
                 before |-> stack, res |-> Ok(<<>>)]
  /\ prev' = op
  /\ UNCHANGED <<fb, lifo>>
  /\ UNCHANGED cliVars

\* TpmStack::from_bytes::<T>(bytes), in place of the default stack, up to
\* `let mut tail = bytes`
StackFromBytes ==
  /\ op.kind = "default"
  /\ ~fb.active
  /\ \E T \in ObjectTypes, bytes \in InputBuffers :
       fb' = [active |-> TRUE, type |-> T, bytes |-> bytes, tail |-> bytes,
              steps |-> 0]
  /\ UNCHANGED <<stack, op, prev, lifo>>
  /\ UNCHANGED cliVars

\* TpmStack::from_bytes: one iteration of `while !tail.is_empty()`: the
\* parse fails and `?` returns its error, or `tail` becomes the remainder.
\* The model follows a call for one iteration more than its input has bytes.
FromBytesIterate ==
  /\ fb.active
  /\ fb.tail # <<>>
  /\ LET next == from_bytes_iteration(fb.type, fb.tail)
     IN IF next.tag = "err"
          THEN /\ stack' = stack
               /\ op' = [kind |-> "from_bytes", type |-> fb.type,
                         arg |-> fb.bytes, before |-> stack, res |-> next]
               /\ prev' = op
               /\ fb' = NoCall
          ELSE /\ fb.steps <= Len(fb.bytes)
               /\ fb' = [fb EXCEPT !.tail = next.val, !.steps = @ + 1]
               /\ UNCHANGED <<stack, op, prev>>
  /\ UNCHANGED lifo
  /\ UNCHANGED cliVars

\* TpmStack::from_bytes: the loop is left and Ok(Self { stack:
\* bytes.to_vec() }) returned
FromBytesReturn ==
  /\ fb.active
  /\ fb.tail = <<>>
  /\ stack' = fb.bytes
  /\ op' = [kind |-> "from_bytes", type |-> fb.type, arg |-> fb.bytes,
            before |-> stack, res |-> Ok(<<>>)]
  /\ prev' = op
  /\ fb' = NoCall
  /\ UNCHANGED lifo
  /\ UNCHANGED cliVars

\* stack.to_bytes()
StackToBytes ==
  /\ ~fb.active
  /\ stack' = stack
  /\ op' = [kind |-> "to_bytes", type |-> "none", arg |-> <<>>,
            before |-> stack, res |-> Ok(to_bytes(stack))]
  /\ prev' = op
  /\ UNCHANGED <<fb, lifo>>
  /\ UNCHANGED cliVars

\* stack.push(&object)
StackPush ==
  /\ ~fb.active
  /\ \E T \in ObjectTypes :
       \E object \in Objects(T) :
         LET done == push(stack, T, object)
         IN /\ Len(done.stack) <= MaxStackLen
            /\ stack' = done.stack
            /\ op' = [kind |-> "push", type |-> T, arg |-> object,
                      before |-> stack, res |-> done.res]
  /\ prev' = op
  /\ UNCHANGED <<fb, lifo>>
  /\ UNCHANGED cliVars

\* stack.pop::<T>()
StackPop ==
  /\ ~fb.active
  /\ \E T \in ObjectTypes :
       LET done == pop(stack, T)
       IN /\ stack' = done.stack
          /\ op' = [kind |-> "pop", type |-> T, arg |-> <<>>,
                    before |-> stack, res |-> done.res]
  /\ prev' = op
  /\ UNCHANGED <<fb, lifo>>
  /\ UNCHANGED cliVars

NextStack ==
  \/ StackFromVec
  \/ StackFromBytes
  \/ FromBytesIterate
  \/ FromBytesReturn
  \/ StackToBytes
  \/ StackPush
  \/ StackPop

\* Bound: the number of objects pushed before they are popped back.
MaxPushes == 3

\* stack.push(&object) succeeding, as one of the pushes x1, ..., xn that are
\* popped back afterwards
LifoPush ==
  /\ lifo.popped = <<>>
  /\ Len(lifo.pushed) < MaxPushes
  /\ \E T \in ObjectTypes :
       \E object \in Objects(T) :
         LET done == push(stack, T, object)
         IN /\ done.res.tag = "ok"
            /\ Len(done.stack) <= MaxStackLen
            /\ stack' = done.stack
            /\ op' = [kind |-> "push", type |-> T, arg |-> object,
                      before |-> stack, res |-> done.res]
            /\ lifo' = [base   |-> IF lifo.pushed = <<>> THEN stack ELSE lifo.base,
                        pushed |-> Append(lifo.pushed,
                                          [type |-> T, object |-> object]),
                        popped |-> <<>>]
  /\ prev' = op
  /\ UNCHANGED fb
  /\ UNCHANGED cliVars

\* stack.pop::<T>() with the type of the latest object not yet popped back
LifoPop ==
  /\ Len(lifo.popped) < Len(lifo.pushed)
  /\ LET top  == lifo.pushed[Len(lifo.pushed) - Len(lifo.popped)]
         done == pop(stack, top.type)
     IN /\ stack' = done.stack
        /\ op' = [kind |-> "pop", type |-> top.type, arg |-> <<>>,
                  before |-> stack, res |-> done.res]
        /\ lifo' = [lifo EXCEPT !.popped = Append(@, done.res)]
  /\ prev' = op
  /\ UNCHANGED fb
  /\ UNCHANGED cliVars

NextLifo ==
  \/ StackFromVec
  \/ LifoPush
  \/ LifoPop

NoOp == [kind |-> "none", type |-> "none", arg |-> <<>>, before |-> <<>>,
         res |-> Ok(<<>>)]

\* TpmStack::default()
InitStack ==
  /\ stack = <<>>
  /\ op = [kind |-> "default", type |-> "none", arg |-> <<>>, before |-> <<>>,
           res |-> Ok(<<>>)]
  /\ prev = NoOp
  /\ fb = NoCall
  /\ lifo = NoLifo

Init == InitCli /\ InitStack

Next ==
  \/ MainRc
  \/ MainList
  \/ MainTransient
  \/ MainPersistent
  \/ MainPrint
  \/ CallGetCapability
  \/ GetCapabilityWrite
  \/ GetCapabilityRead

\* The command-line program and get_capability.
Spec == Init /\ [][Next]_vars

\* The object stack.
SpecStack == Init /\ [][NextStack]_vars

\* The object stack, pushed onto and then popped back.
SpecLifo == Init /\ [][NextLifo]_vars

----------------------------------------------------------------------------
(* The claims. *)

\* bit `b` (a power of two below 2^16) of the low half of a u32
LowBit(raw, b) == (raw.lo \div b) % 2 = 1

\* the variant numbered n, NotUsed when there is none
VariantNumbered(n) ==
  IF \E v \in DOMAIN ResponseCodeRepr : ResponseCodeRepr[v] = n
    THEN CHOOSE v \in DOMAIN ResponseCodeRepr : ResponseCodeRepr[v] = n
    ELSE "NotUsed"

\* the four-step reference classification: format-1, warning, version-1,
\* version-0
ReferenceClassification(raw) ==
  VariantNumbered(
    IF LowBit(raw, 128) THEN 128 + (raw.lo % 64)
    ELSE IF LowBit(raw, 2048) /\ LowBit(raw, 256) THEN 2304 + (raw.lo % 128)
    ELSE IF LowBit(raw, 256) THEN 256 + (raw.lo % 128)
    ELSE raw.lo % 128)

RcDecoded == pc = "done" /\ cmd.kind = "Rc"

\* C1: for every raw u32, ResponseCode::from(raw) is the four-step reference
\* classification of raw (format-1, then warning matched by
\* (raw & 0x900) = 0x900, then version-1, then version-0), NotUsed when the
\* number is not a defined code.
C1_DecodeIsReference ==
  RcDecoded => rc.val = ReferenceClassification(cmd.rc)

\* C2: decode is total: it always returns a variant of the enumeration, a
\* lookup miss yields NotUsed, and the string displayed is one of the fixed
\* names of the enumeration; a Response carries a variant too.
C2_DecodeTotal ==
  /\ RcDecoded =>
       /\ rc.some
       /\ rc.val \in DOMAIN ResponseCodeRepr
       /\ LET masked == ResponseCode_masked(cmd.rc)
          IN (\A v \in DOMAIN ResponseCodeRepr : U32(0, ResponseCodeRepr[v]) # masked)
               => rc.val = "NotUsed"
       /\ Len(stdout) = 1
       /\ stdout[1].name \in {ResponseCodeDisplay[v] : v \in DOMAIN ResponseCodeDisplay}
       /\ stdout[1].name = ResponseCodeDisplay[rc.val]
  /\ response.tag = "ok" => response.val.rc \in DOMAIN ResponseCodeRepr

\* C2 happens: an undefined code was decoded to NotUsed and displayed.
C2_Witness ==
  /\ RcDecoded
  /\ cmd.rc = U32(0, 2)
  /\ rc = Some("NotUsed")
  /\ stdout[1].name = "TPM_RC_NOT_USED"

\* C3: 0x00000000 decodes to Success and displays TPM_RC_SUCCESS, 0x00000101
\* decodes to Failure and displays TPM_RC_FAILURE, 0xFFFFFFFF decodes to
\* NotUsed and displays TPM_RC_NOT_USED.
C3_DocumentedCodes ==
  RcDecoded =>
    /\ cmd.rc = U32(0, 0) =>
         rc.val = "Success" /\ stdout[1].name = "TPM_RC_SUCCESS"
    /\ cmd.rc = U32(0, 257) =>
         rc.val = "Failure" /\ stdout[1].name = "TPM_RC_FAILURE"
    /\ cmd.rc = U32(65535, 65535) =>
         rc.val = "NotUsed" /\ stdout[1].name = "TPM_RC_NOT_USED"

\* C3 happens: 0x00000101 was decoded and displayed.
C3_Witness ==
  /\ RcDecoded
  /\ cmd.rc = U32(0, 257)
  /\ stdout = <<[name |-> "TPM_RC_FAILURE", value |-> U32(0, 257)]>>

\* the buffer's bytes [2,6) hold, big-endian, the buffer's own length
DeclaresOwnLength(buf) ==
  /\ buf[3] = 0
  /\ buf[4] * 65536 + buf[5] * 256 + buf[6] = Len(buf)

\* C4: when the transport read succeeds, read_response returns a Response
\* if and only if the buffer has at least 10 bytes and the big-endian u32 at
\* bytes [2,6) equals its length; every other buffer is rejected with
\* InvalidData; an unknown tag gives an absent tag, never a rejection.
C4_HeaderValidation ==
  rbuf.some =>
    LET buf  == rbuf.val
        good == Len(buf) >= 10 /\ DeclaresOwnLength(buf)
    IN /\ response.tag = "ok" <=> good
       /\ ~good => response = Err("InvalidData")
       /\ good =>
            LET tag_raw == buf[1] * 256 + buf[2]
            IN (\A v \in DOMAIN TagRepr : TagRepr[v] # tag_raw)
                 => response.val.tag = None

\* C4 happens: a buffer with an unknown tag and a response code other than
\* success was accepted.
C4_Witness ==
  /\ rbuf.some
  /\ response.tag = "ok"
  /\ response.val.tag = None
  /\ Len(rbuf.val) > 10

\* C5: every Response returned has size equal to the length of the buffer it
\* was parsed from, parameters equal to the bytes from offset 10 to the end,
\* and rc equal to the decode of the big-endian u32 at bytes [6,10).
C5_ResponseFields ==
  response.tag = "ok" =>
    LET buf == rbuf.val
        r   == response.val
    IN /\ r.size = U32(0, Len(buf))
       /\ Len(r.parameters) = Len(buf) - 10
       /\ \A i \in 1 .. Len(r.parameters) : r.parameters[i] = buf[10 + i]
       /\ r.rc = ResponseCode_from(U32(buf[7] * 256 + buf[8], buf[9] * 256 + buf[10]))

\* C5 happens: a Response with parameters and the code 0x101 was returned.
C5_Witness ==
  /\ response.tag = "ok"
  /\ response.val.rc = "Failure"
  /\ Len(response.val.parameters) = 17

\* C6: the command get_capability hands to write_all is exactly 22 bytes:
\* tag 0x8001, size 22, command code 0x0000017A, capability 0x00000001,
\* property, property_count, all big-endian.
C6_CommandLayout ==
  wbuf.some =>
    LET p == frame.property
        n == frame.property_count
    IN /\ Len(wbuf.val) = 22
       /\ wbuf.val = <<128, 1,  0, 0, 0, 22,  0, 0, 1, 122,  0, 0, 0, 1,
                       p.hi \div 256, p.hi % 256, p.lo \div 256, p.lo % 256,
                       n.hi \div 256, n.hi % 256, n.lo \div 256, n.lo % 256>>
       /\ wbuf.val[3] * 16777216 + wbuf.val[4] * 65536 + wbuf.val[5] * 256
            + wbuf.val[6] = Len(wbuf.val)

\* C6 happens: a command for property 0x12345678 and count 0x00010000 was
\* written.
C6_Witness ==
  /\ wbuf.some
  /\ frame.property = U32(4660, 22136)
  /\ frame.property_count = U32(1, 0)
  /\ ioLog = <<[op |-> "write", ok |-> TRUE, call |-> 1]>>

\* the handle count a parameter area declares, as two 16-bit halves
DeclaredCount(ps) == U32(ps[6] * 256 + ps[7], ps[8] * 256 + ps[9])

\* C7: get_capability rejects with InvalidData every response whose
\* parameters are shorter than 9 bytes, or have (length - 9) not a multiple
\* of 4, or declare a count other than (length - 9) / 4, or declare more
\* handles than property_count; every list returned has at most
\* property_count handles.
C7_CapabilityBounds ==
  response.tag = "ok" =>
    LET ps  == response.val.parameters
        n   == frame.property_count
        bad == \/ Len(ps) < 9
               \/ (Len(ps) - 9) % 4 # 0
               \/ DeclaredCount(ps) # U32(0, (Len(ps) - 9) \div 4)
               \/ DeclaredCount(ps).hi > n.hi
               \/ (DeclaredCount(ps).hi = n.hi /\ DeclaredCount(ps).lo > n.lo)
    IN /\ bad => result = Err("InvalidData")
       /\ result.tag = "ok" => (n.hi > 0 \/ Len(result.val) <= n.lo)

\* C7 happens: a response declaring 3 handles and carrying 8 bytes of handle
\* data was rejected.
C7_Witness ==
  /\ response.tag = "ok"
  /\ Len(response.val.parameters) = 17
  /\ DeclaredCount(response.val.parameters) = U32(0, 3)
  /\ frame.property_count = U32(0, MAX_HANDLES)
  /\ result = Err("InvalidData")

\* C8: the handles get_capability returns are the consecutive big-endian
\* u32 values at parameter offsets 9, 13, 17, ..., as many as declared, in
\* that order; the parameters [5 bytes][00 00 00 02][00 00 00 11]
\* [00 00 00 12] with a requested maximum of 16 give [0x11, 0x12].
C8_HandlesInOrder ==
  result.tag = "ok" =>
    LET ps == response.val.parameters
        hs == result.val
    IN /\ U32(0, Len(hs)) = DeclaredCount(ps)
       /\ \A i \in 1 .. Len(hs) :
            hs[i] = U32(ps[4 * i + 6] * 256 + ps[4 * i + 7],
                        ps[4 * i + 8] * 256 + ps[4 * i + 9])
       /\ (/\ SubSeq(ps, 6, Len(ps)) = <<0, 0, 0, 2, 0, 0, 0, 17, 0, 0, 0, 18>>
           /\ frame.property_count = U32(0, 16))
          => hs = <<U32(0, 17), U32(0, 18)>>

\* C8 happens: the documented handle list was returned.
C8_Witness ==
  /\ result = Ok(<<U32(0, 17), U32(0, 18)>>)
  /\ frame.property_count = U32(0, 16)
  /\ response.val.parameters = <<255, 0, 0, 0, 2, 0, 0, 0, 2, 0, 0, 0, 17, 0, 0, 0, 18>>

\* the transport operations call number c performed
OpsOfCall(c, kind) == {i \in 1 .. Len(ioLog) : ioLog[i].call = c /\ ioLog[i].op = kind}

\* C9: each get_capability call performs exactly one write followed by at
\* most one read; a read is always preceded by the successful write of its
\* own call; a failed write returns InvalidWrite with no read, a failed read
\* returns InvalidRead; nothing is retried; a second command is written
\* only after the first response has been read.
C9_HalfDuplex ==
  /\ \A i \in 1 .. Len(ioLog) :
       /\ ioLog[i].op = "read" =>
            i > 1 /\ ioLog[i - 1] = [op |-> "write", ok |-> TRUE, call |-> ioLog[i].call]
       /\ (ioLog[i].op = "write" /\ i > 1) =>
            /\ ioLog[i - 1].op = "read"
            /\ ioLog[i - 1].ok
            /\ ioLog[i - 1].call < ioLog[i].call
       /\ ioLog[i].call \in 1 .. calls
  /\ \A c \in 1 .. calls :
       /\ Cardinality(OpsOfCall(c, "write")) = IF c = calls /\ pc = "gc_write" THEN 0 ELSE 1
       /\ Cardinality(OpsOfCall(c, "read")) <= 1
  /\ pc = "gc_ret" =>
       /\ ~ioLog[Len(ioLog)].ok =>
            result = Err(IF ioLog[Len(ioLog)].op = "write"
                           THEN "InvalidWrite" ELSE "InvalidRead")
       /\ result = Err("InvalidWrite") => ioLog[Len(ioLog)].op = "write"

\* C9 happens: the transient and the persistent query both ran to the end.
C9_Witness ==
  /\ pc = "done"
  /\ cmd.kind = "List"
  /\ Len(ioLog) = 4
  /\ calls = 2

\* C10: push(x) followed immediately by pop::<T>() returns x, and the pop
\* shrinks the buffer by the length of x's encoding, leaving it as it was
\* before the push.
C10_PushPopRoundTrip ==
  (/\ op.kind = "pop"
   /\ prev.kind = "push"
   /\ prev.res.tag = "ok"
   /\ op.type = prev.type)
  => /\ op.res = Ok(prev.arg)
     /\ stack = prev.before
     /\ Len(op.before) - Len(stack) = Len(Encoding(prev.type, prev.arg))

\* C10 happens: a sized buffer was pushed onto a non-empty stack and popped.
C10_Witness ==
  /\ op.kind = "pop"
  /\ op.type = "Tpm2b"
  /\ prev.kind = "push"
  /\ prev.type = "Tpm2b"
  /\ prev.res.tag = "ok"
  /\ prev.arg = <<1>>
  /\ prev.before = <<1, 1>>
  /\ op.res = Ok(<<1>>)
  /\ stack = <<1, 1>>

RECURSIVE IsConcatenation(_, _)
\* `bytes` is the encodings of zero or more objects of type T, one after
\* another, and nothing else
IsConcatenation(T, bytes) ==
  \/ bytes = <<>>
  \/ \E x \in Objects(T) :
       LET e == Encoding(T, x)
       IN /\ e # <<>>
          /\ Len(e) <= Len(bytes)
          /\ SubSeq(bytes, 1, Len(e)) = e
          /\ IsConcatenation(T, SubSeq(bytes, Len(e) + 1, Len(bytes)))

\* the stack was constructed and then, at most, pushed onto or popped once,
\* and every operation that names an object type names T
HeldAs(T) ==
  \/ /\ prev.kind = "default"
     /\ op.kind \in {"from_bytes", "push", "pop"}
     /\ op.type = T
  \/ /\ prev.kind = "from_vec"
     /\ op.kind \in {"push", "pop"}
     /\ op.type = T
  \/ /\ prev.kind = "from_bytes"
     /\ prev.type = T
     /\ op.kind \in {"push", "pop"}
     /\ op.type = T

C12_PopFailures ==
  op.kind = "pop" =>
    /\ op.before = <<>> => (op.res = Err("Boundary") /\ stack = <<>>)
    /\ (op.before # <<>> /\ TpmParse_parse(op.type, op.before).tag = "err")
         => op.res = Err(TpmParse_parse(op.type, op.before).err)

\* C13: from_bytes::<T>(bytes) succeeds exactly when bytes is the encodings
\* of zero or more objects of type T, one after another, with nothing left
\* over; when a parse fails the error is returned and no stack is made; on
\* success the stack holds the input, to_bytes returns it verbatim, and
\* to_bytes leaves the stack as it was.
C13_FromBytesExact ==
  /\ op.kind = "from_bytes" =>
       /\ (op.res.tag = "ok") <=> IsConcatenation(op.type, op.arg)
       /\ op.res.tag = "ok" => stack = op.arg
       /\ op.res.tag = "err" => stack = op.before
  /\ op.kind = "to_bytes" =>
       /\ op.res = Ok(op.before)
       /\ stack = op.before
  /\ (op.kind = "to_bytes" /\ prev.kind = "from_bytes" /\ prev.res.tag = "ok")
       => op.res = Ok(prev.arg)

\* C13 happens: two sized buffers were admitted by from_bytes and to_bytes
\* returned them.
C13_Witness ==
  /\ op.kind = "to_bytes"
  /\ prev.kind = "from_bytes"
  /\ prev.type = "Tpm2b"
  /\ prev.res.tag = "ok"
  /\ prev.arg = <<0, 1, 1, 0, 0>>
  /\ op.res = Ok(<<0, 1, 1, 0, 0>>)
  /\ stack = <<0, 1, 1, 0, 0>>

\* what from_bytes::<T>(bytes) returns, followed for one iteration more
\* than bytes has bytes
Outcome(T, bytes) == from_bytes_within(T, bytes, Len(bytes) + 1)

\* bytes without its last byte
Truncated(bytes) == SubSeq(bytes, 1, Len(bytes) - 1)

\* from_bytes::<T> has just accepted an input of at least one encoding
AcceptedSome ==
  /\ op.kind = "from_bytes"
  /\ op.res.tag = "ok"
  /\ op.arg # <<>>

\* C14 as stated: whatever the type T, an input that from_bytes::<T> accepts
\* with at least one encoding is rejected once its last encoding is
\* truncated by one byte, and is rejected once any one byte is appended.
C14_TruncatedOrExtendedRejected ==
  AcceptedSome =>
    /\ Outcome(op.type, Truncated(op.arg)).tag = "err"
    /\ \A b \in StackBytes : Outcome(op.type, Append(op.arg, b)).tag = "err"

\* C14, amended: for a fixed-width type of two bytes and for a sized buffer
\* (a 16-bit length followed by that many bytes), an input that from_bytes
\* accepts with at least one encoding is rejected once its last encoding is
\* truncated by one byte, and is rejected once any one byte is appended; for
\* a one-byte type both the truncated and the extended input are accepted.
C14_FramedTruncatedOrExtendedRejected ==
  AcceptedSome =>
    /\ op.type \in {"u16", "Tpm2b"} =>
         /\ Outcome(op.type, Truncated(op.arg)).tag = "err"
         /\ \A b \in StackBytes :
              Outcome(op.type, Append(op.arg, b)).tag = "err"
    /\ op.type = "u8" =>
         /\ Outcome(op.type, Truncated(op.arg)).tag = "ok"
         /\ \A b \in StackBytes :
              Outcome(op.type, Append(op.arg, b)).tag = "ok"

\* C14 happens: from_bytes accepted two sized buffers, and rejects them
\* without the last byte and with one byte more.
C14_Witness ==
  /\ AcceptedSome
  /\ op.type = "Tpm2b"
  /\ op.arg = <<0, 0, 0, 1, 1>>
  /\ Outcome("Tpm2b", <<0, 0, 0, 1>>).tag = "err"
  /\ Outcome("Tpm2b", <<0, 0, 0, 1, 1, 0>>).tag = "err"

\* C15: a successful push(x) makes the buffer the encoding of x followed by
\* the previous buffer, longer by the length of that encoding; and after
\* x1, ..., xn were pushed in that order onto any stack, the pops that
\* follow succeed and return xn, ..., x1, and the n-th of them leaves the
\* buffer as it was before the first push.
C15_LastInFirstOut ==
  /\ (op.kind = "push" /\ op.res.tag = "ok") =>
       /\ stack = Encoding(op.type, op.arg) \o op.before
       /\ Len(stack) = Len(op.before) + Len(Encoding(op.type, op.arg))
  /\ \A i \in 1 .. Len(lifo.popped) :
       lifo.popped[i] = Ok(lifo.pushed[Len(lifo.pushed) + 1 - i].object)
  /\ (lifo.pushed # <<>> /\ Len(lifo.popped) = Len(lifo.pushed))
       => stack = lifo.base

\* C15 happens: a byte, an empty sized buffer and another byte were pushed
\* onto a stack made by from_vec, and all three were popped back.
C15_Witness ==
  /\ lifo.base = <<1>>
  /\ Len(lifo.pushed) = 3
  /\ lifo.pushed[1].type = "u8"
  /\ lifo.pushed[2].type = "Tpm2b"
  /\ lifo.pushed[3].type = "u8"
  /\ lifo.pushed[1].object = 0
  /\ lifo.pushed[2].object = <<>>
  /\ lifo.pushed[3].object = 1
  /\ Len(lifo.popped) = 3
  /\ lifo.popped = <<Ok(1), Ok(<<>>), Ok(0)>>
  /\ stack = <<1>>

\* C16: push fails whenever the encoding of the object is longer than the
\* scratch buffer of TPM_MAX_COMMAND_SIZE bytes, and after a failed push or
\* a failed pop the buffer is what it was before the call.
C16_FailureLeavesBuffer ==
  /\ (op.kind = "push"
      /\ Len(Encoding(op.type, op.arg)) > TPM_MAX_COMMAND_SIZE)
       => op.res.tag = "err"
  /\ (op.kind \in {"push", "pop"} /\ op.res.tag = "err")
       => stack = op.before

\* C16 happens: a sized buffer too long for the scratch buffer was pushed
\* onto a non-empty stack.
C16_Witness ==
  /\ op.kind = "push"
  /\ op.type = "Tpm2b"
  /\ Len(op.arg) = MaxData
  /\ Len(Encoding(op.type, op.arg)) > TPM_MAX_COMMAND_SIZE
  /\ op.res.tag = "err"
  /\ op.before = <<1, 0>>
  /\ stack = <<1, 0>>

\* buf with its bytes [0,2) replaced by tag and its bytes [6,10) by code,
\* as far as buf has them
Reframed(buf, tag, code) ==
  [i \in 1 .. Len(buf) |->
     IF i \in 1 .. 2 THEN u16_to_be_bytes(tag)[i]
     ELSE IF i \in 7 .. 10 THEN u32_to_be_bytes(code)[i - 6]
     ELSE buf[i]]

\* The tags and response codes a response is reframed with: each field
\* changed alone, and both changed together.
Reframings ==
  { <<TagRepr.NoSessions, U32(0, 0)>>, <<TagRepr.NoSessions, U32(0, 257)>>,
    <<4660, U32(0, 0)>>, <<TagRepr.Sessions, U32(65535, 65535)>> }

\* C17: what get_capability returns does not depend on the tag or on the
\* response code of the response: a response that differs from the one read
\* only in bytes [0,2) and [6,10) gives the same result, so a well-formed
\* handle list under a response code other than Success is returned as Ok.
C17_TagAndCodeIgnored ==
  (pc = "gc_ret" /\ rbuf.some) =>
    \A f \in Reframings :
      get_capability_parse(read_response(Some(Reframed(rbuf.val, f[1], f[2]))),
                           frame.property_count) = result

\* C17 happens: a response with the code of TPM_RC_FAILURE and two handles
\* was read, and the two handles were returned.
C17_Witness ==
  /\ pc = "gc_ret"
  /\ rbuf.some
  /\ response.tag = "ok"
  /\ response.val.rc = "Failure"
  /\ result = Ok(<<U32(0, 17), U32(0, 18)>>)

\* C18: from_bytes::<T> returns after at most len(bytes) parse steps,
\* whatever the type T: every iteration of its loop that does not return an
\* error leaves a strictly shorter `tail`.
C18_FromBytesTerminates ==
  fb.active =>
    /\ fb.steps <= Len(fb.bytes)
    /\ Len(fb.tail) <= Len(fb.bytes) - fb.steps

====
